---- MODULE Spec2Model ----
(***************************************************************************)
(* Console games: the snake game (SnakeGame) and the tic-tac-toe game with *)
(* its minimax search, both from snake_game.cpp.                           *)
(***************************************************************************)
EXTENDS Integers, Sequences, FiniteSets, TLC

VARIABLES
    \* tic-tac-toe
    mode,        \* main(): 1 = twoPlayerGame, 2 = humanVsComputer, 0 = not running
    board,       \* vector<char> board(9), indexed 0..8
    turn,        \* twoPlayerGame: whose mark is placed next
    humanTurn,   \* humanVsComputer: bool humanTurn
    state,       \* int state = checkWin(board); 2 before the first move
    best,        \* humanVsComputer: int best of the last computer turn (-2: none yet)
    startVal,    \* bestVal of the first findBestMove call of the game (-100: none yet)
    \* snake
    snake,       \* std::deque<Point> snake, the head first
    food,        \* Point food
    dir,         \* Direction dir
    score,       \* int score
    gameOver,    \* bool gameOver
    pc,          \* where run() is: "input", "timer", "update", "done" ("off": not running)
    key,         \* handleInput: the key read last in this call ("none": none yet)
    nkeys        \* the number of keys read so far

tttVars == <<mode, board, turn, humanTurn, state, best, startVal>>

snakeVars == <<snake, food, dir, score, gameOver, pc, key, nkeys>>

vars == <<mode, board, turn, humanTurn, state, best, startVal,
          snake, food, dir, score, gameOver, pc, key, nkeys>>

(***************************************************************************)
(* Tic-tac-toe: constants and the pure functions                           *)
(***************************************************************************)
HUMAN == "X"
COMPUTER == "O"
EMPTY == " "

INT_MIN == -2147483647 - 1
INT_MAX == 2147483647

Cells == 0..8

max(a, b) == IF a < b THEN b ELSE a
min(a, b) == IF b < a THEN b ELSE a

isMovesLeft(b) == \E c \in Cells : b[c] = EMPTY

\* One "if three cells are equal" test of evaluate: the value it returns,
\* or 0 when it falls through to the next test.
LineScore(b, c1, c2, c3) ==
    IF b[c1] = b[c2] /\ b[c2] = b[c3]
    THEN IF b[c1] = COMPUTER THEN 10
         ELSE IF b[c1] = HUMAN THEN -10
         ELSE 0
    ELSE 0

\* evaluate with the test of the second diagonal (cells 2, 4, 6) left out.
evaluateNoAnti(b) ==
    LET r0 == LineScore(b, 0, 1, 2)
        r1 == LineScore(b, 3, 4, 5)
        r2 == LineScore(b, 6, 7, 8)
        c0 == LineScore(b, 0, 3, 6)
        c1 == LineScore(b, 1, 4, 7)
        c2 == LineScore(b, 2, 5, 8)
        d0 == LineScore(b, 0, 4, 8)
    IN IF r0 # 0 THEN r0
       ELSE IF r1 # 0 THEN r1
       ELSE IF r2 # 0 THEN r2
       ELSE IF c0 # 0 THEN c0
       ELSE IF c1 # 0 THEN c1
       ELSE IF c2 # 0 THEN c2
       ELSE d0

\* evaluate: the rows, the columns, the two diagonals, in the code's order;
\* the first test that returns decides.
evaluate(b) ==
    LET r0 == LineScore(b, 0, 1, 2)
        r1 == LineScore(b, 3, 4, 5)
        r2 == LineScore(b, 6, 7, 8)
        c0 == LineScore(b, 0, 3, 6)
        c1 == LineScore(b, 1, 4, 7)
        c2 == LineScore(b, 2, 5, 8)
        d0 == LineScore(b, 0, 4, 8)
        d1 == LineScore(b, 2, 4, 6)
    IN IF r0 # 0 THEN r0
       ELSE IF r1 # 0 THEN r1
       ELSE IF r2 # 0 THEN r2
       ELSE IF c0 # 0 THEN c0
       ELSE IF c1 # 0 THEN c1
       ELSE IF c2 # 0 THEN c2
       ELSE IF d0 # 0 THEN d0
       ELSE d1

RECURSIVE minimax(_, _, _), MaxLoop(_, _, _, _), MinLoop(_, _, _, _)
RECURSIVE MaxLoopMin(_, _, _, _), MinLoopNoUndo(_, _, _, _)

\* The maximizing loop keeping the least value instead of the greatest.
MaxLoopMin(b, depth, i, bestSoFar) ==
    IF i = 9 THEN [val |-> IF bestSoFar = INT_MIN THEN 0 ELSE bestSoFar, board |-> b]
    ELSE IF b[i] = EMPTY
    THEN LET r == minimax([b EXCEPT ![i] = COMPUTER], depth + 1, FALSE)
         IN MaxLoopMin([r.board EXCEPT ![i] = EMPTY], depth, i + 1,
                       IF bestSoFar = INT_MIN THEN r.val ELSE min(bestSoFar, r.val))
    ELSE MaxLoopMin(b, depth, i + 1, bestSoFar)

\* The minimizing loop without "board[i] = EMPTY" after the recursive call.
MinLoopNoUndo(b, depth, i, bestSoFar) ==
    IF i = 9 THEN [val |-> bestSoFar, board |-> b]
    ELSE IF b[i] = EMPTY
    THEN LET r == minimax([b EXCEPT ![i] = HUMAN], depth + 1, TRUE)
         IN MinLoopNoUndo(r.board, depth, i + 1, min(bestSoFar, r.val))
    ELSE MinLoopNoUndo(b, depth, i + 1, bestSoFar)

\* for (i = 0; i < 9; ++i) of the maximizing branch; the board is the one
\* vector that every call writes to and restores.
MaxLoop(b, depth, i, bestSoFar) ==
    IF i = 9 THEN [val |-> bestSoFar, board |-> b]
    ELSE IF b[i] = EMPTY
    THEN LET r == minimax([b EXCEPT ![i] = COMPUTER], depth + 1, FALSE)
         IN MaxLoop([r.board EXCEPT ![i] = EMPTY], depth, i + 1, max(bestSoFar, r.val))
    ELSE MaxLoop(b, depth, i + 1, bestSoFar)

MinLoop(b, depth, i, bestSoFar) ==
    IF i = 9 THEN [val |-> bestSoFar, board |-> b]
    ELSE IF b[i] = EMPTY
    THEN LET r == minimax([b EXCEPT ![i] = HUMAN], depth + 1, TRUE)
         IN MinLoop([r.board EXCEPT ![i] = EMPTY], depth, i + 1, min(bestSoFar, r.val))
    ELSE MinLoop(b, depth, i + 1, bestSoFar)

\* minimax without the test "if (score == -10)": a human line ends nothing.
minimaxNoLoss(b, depth, isMax) ==
    LET sc == evaluate(b)
    IN IF sc = 10 THEN [val |-> sc - depth, board |-> b]
       ELSE IF ~isMovesLeft(b) THEN [val |-> 0, board |-> b]
       ELSE IF isMax THEN MaxLoop(b, depth, 0, INT_MIN)
       ELSE MinLoop(b, depth, 0, INT_MAX)

\* minimax without the depth adjustment of a finished line.
minimaxNoDepth(b, depth, isMax) ==
    LET sc == evaluate(b)
    IN IF sc = 10 THEN [val |-> sc, board |-> b]
       ELSE IF sc = -10 THEN [val |-> sc, board |-> b]
       ELSE IF ~isMovesLeft(b) THEN [val |-> 0, board |-> b]
       ELSE IF isMax THEN MaxLoop(b, depth, 0, INT_MIN)
       ELSE MinLoop(b, depth, 0, INT_MAX)

minimax(b, depth, isMax) ==
    LET sc == evaluate(b)
    IN IF sc = 10 THEN [val |-> sc - depth, board |-> b]
       ELSE IF sc = -10 THEN [val |-> sc + depth, board |-> b]
       ELSE IF ~isMovesLeft(b) THEN [val |-> 0, board |-> b]
       ELSE IF isMax THEN MaxLoop(b, depth, 0, INT_MIN)
       ELSE MinLoop(b, depth, 0, INT_MAX)

RECURSIVE FindLoop(_, _, _, _), FindLoopFlipped(_, _, _, _)
RECURSIVE FindLoopLastTie(_, _, _, _)

\* The top-level loop letting the last of equal values win (moveVal >= bestVal).
FindLoopLastTie(b, i, bestVal, bestMove) ==
    IF i = 9 THEN [move |-> bestMove, val |-> bestVal, board |-> b]
    ELSE IF b[i] = EMPTY
    THEN LET r == minimax([b EXCEPT ![i] = COMPUTER], 0, FALSE)
             undone == [r.board EXCEPT ![i] = EMPTY]
         IN IF r.val >= bestVal
            THEN FindLoopLastTie(undone, i + 1, r.val, i)
            ELSE FindLoopLastTie(undone, i + 1, bestVal, bestMove)
    ELSE FindLoopLastTie(b, i + 1, bestVal, bestMove)

\* The top-level loop with the comparison turned round (moveVal < bestVal).
FindLoopFlipped(b, i, bestVal, bestMove) ==
    IF i = 9 THEN [move |-> bestMove, val |-> bestVal, board |-> b]
    ELSE IF b[i] = EMPTY
    THEN LET r == minimax([b EXCEPT ![i] = COMPUTER], 0, FALSE)
             undone == [r.board EXCEPT ![i] = EMPTY]
         IN IF r.val < bestVal
            THEN FindLoopFlipped(undone, i + 1, r.val, i)
            ELSE FindLoopFlipped(undone, i + 1, bestVal, bestMove)
    ELSE FindLoopFlipped(b, i + 1, bestVal, bestMove)

FindLoop(b, i, bestVal, bestMove) ==
    IF i = 9 THEN [move |-> bestMove, val |-> bestVal, board |-> b]
    ELSE IF b[i] = EMPTY
    THEN LET r == minimax([b EXCEPT ![i] = COMPUTER], 0, FALSE)
             undone == [r.board EXCEPT ![i] = EMPTY]
         IN IF r.val > bestVal
            THEN FindLoop(undone, i + 1, r.val, i)
            ELSE FindLoop(undone, i + 1, bestVal, bestMove)
    ELSE FindLoop(b, i + 1, bestVal, bestMove)

\* findBestMove with bestVal started at 0 instead of the least int.
findBestMoveFromZero(b) == FindLoop(b, 0, 0, -1)

\* findBestMove with bestMove started at 0 instead of -1.
findBestMoveDefaultZero(b) == FindLoop(b, 0, INT_MIN, 0)

findBestMove(b) == FindLoop(b, 0, INT_MIN, -1)

checkWin(b) ==
    LET val == evaluate(b)
    IN IF val = 10 THEN 1
       ELSE IF val = -10 THEN -1
       ELSE IF ~isMovesLeft(b) THEN 0
       ELSE 2

EmptyBoard == [c \in Cells |-> EMPTY]

\* The snake game is another program: it is not running.
SnakeOff ==
    /\ snake = <<>>
    /\ food = [x |-> 0, y |-> 0]
    /\ dir = "RIGHT"
    /\ score = 0
    /\ gameOver = FALSE
    /\ pc = "off"
    /\ key = "none"
    /\ nkeys = 0

(***************************************************************************)
(* Tic-tac-toe: the two game loops                                         *)
(***************************************************************************)
TTTInit ==
    /\ mode \in {1, 2}
    /\ board = EmptyBoard
    /\ turn = HUMAN
    /\ humanTurn \in BOOLEAN
    /\ (mode = 1 => humanTurn = TRUE)
    /\ state = 2
    /\ best = -2
    /\ startVal = -100
    /\ SnakeOff

\* humanVsComputer, the human branch of one pass: promptMove returns an empty
\* cell of 0..8, the mark is written, checkWin decides whether the loop ends.
HumanMove ==
    /\ mode = 2 /\ state = 2 /\ humanTurn
    /\ \E move \in Cells :
        /\ board[move] = EMPTY
        /\ board' = [board EXCEPT ![move] = HUMAN]
    /\ state' = checkWin(board')
    /\ humanTurn' = IF state' = 2 THEN ~humanTurn ELSE humanTurn
    /\ UNCHANGED <<mode, turn, best, startVal, snakeVars>>

\* The fallback of humanVsComputer when findBestMove returns -1.
FirstEmpty(b) ==
    IF isMovesLeft(b) THEN CHOOSE c \in Cells : b[c] = EMPTY /\ \A d \in 0..(c - 1) : b[d] # EMPTY
    ELSE -1

\* humanVsComputer, the computer branch of one pass.
ComputerMove ==
    /\ mode = 2 /\ state = 2 /\ ~humanTurn
    /\ \E r \in {findBestMove(board)} :
         \E b \in {IF r.move = -1 THEN FirstEmpty(r.board) ELSE r.move} :
          /\ b \in Cells
          /\ best' = b
          /\ board' = [r.board EXCEPT ![b] = COMPUTER]
          /\ startVal' = IF startVal = -100 THEN r.val ELSE startVal
    /\ state' = checkWin(board')
    /\ humanTurn' = IF state' = 2 THEN ~humanTurn ELSE humanTurn
    /\ UNCHANGED <<mode, turn, snakeVars>>

\* TwoPlayerMove without the change of turn.
TwoPlayerMoveNoSwap ==
    /\ mode = 1 /\ state = 2
    /\ \E move \in Cells :
        /\ board[move] = EMPTY
        /\ board' = [board EXCEPT ![move] = turn]
    /\ state' = checkWin(board')
    /\ UNCHANGED <<mode, turn, humanTurn, best, startVal, snakeVars>>

\* twoPlayerGame, one pass of the loop.
TwoPlayerMove ==
    /\ mode = 1 /\ state = 2
    /\ \E move \in Cells :
        /\ board[move] = EMPTY
        /\ board' = [board EXCEPT ![move] = turn]
    /\ state' = checkWin(board')
    /\ turn' = IF state' = 2 THEN (IF turn = HUMAN THEN COMPUTER ELSE HUMAN) ELSE turn
    /\ UNCHANGED <<mode, humanTurn, best, startVal, snakeVars>>

TTTNext == TwoPlayerMove \/ HumanMove \/ ComputerMove

\* The program of tic-tac-toe: main() picks a mode, the chosen loop runs.
SpecTTT == TTTInit /\ [][TTTNext]_vars

(***************************************************************************)
(* humanVsComputer against a human who answers with the search's own       *)
(* minimizing choice                                                       *)
(***************************************************************************)
EmptyCells(b) == {c \in Cells : b[c] = EMPTY}

\* The value minimax gives a human mark on cell i (computer to move next).
HumanMoveVal(b, i) == minimax([b EXCEPT ![i] = HUMAN], 0, TRUE).val

\* The human branch of humanVsComputer, the input restricted to the cells
\* of least minimax value.
HumanBestMove ==
    /\ mode = 2 /\ state = 2 /\ humanTurn
    /\ \E vals \in {[i \in EmptyCells(board) |-> HumanMoveVal(board, i)]} :
         \E move \in EmptyCells(board) :
            /\ \A j \in EmptyCells(board) : vals[move] <= vals[j]
            /\ board' = [board EXCEPT ![move] = HUMAN]
    /\ state' = checkWin(board')
    /\ humanTurn' = IF state' = 2 THEN ~humanTurn ELSE humanTurn
    /\ UNCHANGED <<mode, turn, best, startVal, snakeVars>>

OptInit == TTTInit /\ mode = 2

OptNext == HumanBestMove \/ ComputerMove

SpecOpt == OptInit /\ [][OptNext]_vars

(***************************************************************************)
(* The search started on an arbitrary board: the computer to move, the     *)
(* human answering with any legal move                                     *)
(***************************************************************************)
\* Boards given to the search have at most MaxEmpty empty cells.
MaxEmpty == 5

AnyBoards ==
    {b \in [Cells -> {EMPTY, HUMAN, COMPUTER}] :
        /\ evaluate(b) = 0
        /\ Cardinality(EmptyCells(b)) \in 1..MaxEmpty}

AnyInit ==
    /\ mode = 2
    /\ board \in AnyBoards
    /\ turn = HUMAN
    /\ humanTurn = FALSE
    /\ state = 2
    /\ best = -2
    /\ startVal = -100
    /\ SnakeOff

AnyNext == HumanMove \/ ComputerMove

SpecAny == AnyInit /\ [][AnyNext]_vars

(***************************************************************************)
(* The snake game                                                          *)
(***************************************************************************)
WIDTH == 30
HEIGHT == 20

\* The keys typed during a run are at most MaxKeys.
MaxKeys == 3
\* The random generator's draws fall on the FoodSpan cells below and
\* including the cell ahead of the starting head.
FoodSpan == 3

Direction == {"UP", "DOWN", "LEFT", "RIGHT"}

\* The keys of handleInput: the letters w, s, a, d, q of handleCharInput, any
\* other character ("x"), and the four arrow keys (ESC [ A..D).
Keys == {"w", "s", "a", "d", "q", "x", "ESC[A", "ESC[B", "ESC[C", "ESC[D"}

Point(px, py) == [x |-> px, y |-> py]

Segments(sn) == {sn[i] : i \in 1..Len(sn)}

\* The snake reset() builds: the head in the middle, two segments to its left.
ResetSnake ==
    << Point(WIDTH \div 2, HEIGHT \div 2),
       Point(WIDTH \div 2 - 1, HEIGHT \div 2),
       Point(WIDTH \div 2 - 2, HEIGHT \div 2) >>

\* The points dx(rng), dy(rng) may give, within the bound.
FoodDraws == {Point(WIDTH \div 2 + 1, HEIGHT \div 2 + k) : k \in 0..(FoodSpan - 1)}

\* placeFood without the onSnake test: the first draw is taken.
placeFoodNoReject(sn) == FoodDraws

\* placeFood: the points the rejection loop can end on for snake sn.
placeFood(sn) == {p \in FoodDraws : p \notin Segments(sn)}

\* tryChangeDir with "dir == RIGHT && newDir == LEFT" left out of the test.
tryChangeDirNoLeft(d, newDir) ==
    IF \/ (d = "UP" /\ newDir = "DOWN")
       \/ (d = "DOWN" /\ newDir = "UP")
       \/ (d = "LEFT" /\ newDir = "RIGHT")
    THEN d
    ELSE newDir

\* tryChangeDir: the direction after the request newDir.
tryChangeDir(d, newDir) ==
    IF \/ (d = "UP" /\ newDir = "DOWN")
       \/ (d = "DOWN" /\ newDir = "UP")
       \/ (d = "LEFT" /\ newDir = "RIGHT")
       \/ (d = "RIGHT" /\ newDir = "LEFT")
    THEN d
    ELSE newDir

\* update: the switch on dir.
step(head, d) ==
    CASE d = "UP" -> Point(head.x, head.y - 1)
      [] d = "DOWN" -> Point(head.x, head.y + 1)
      [] d = "LEFT" -> Point(head.x - 1, head.y)
      [] d = "RIGHT" -> Point(head.x + 1, head.y)

\* The wrap-around without "if (next.x >= WIDTH) next.x = 0".
wrapNoRight(p) ==
    LET x1 == IF p.x < 0 THEN WIDTH - 1 ELSE p.x
        y1 == IF p.y < 0 THEN HEIGHT - 1 ELSE p.y
        y2 == IF y1 >= HEIGHT THEN 0 ELSE y1
    IN Point(x1, y2)

\* update: the four wrap-around tests, in order.
wrap(p) ==
    LET x1 == IF p.x < 0 THEN WIDTH - 1 ELSE p.x
        x2 == IF x1 >= WIDTH THEN 0 ELSE x1
        y1 == IF p.y < 0 THEN HEIGHT - 1 ELSE p.y
        y2 == IF y1 >= HEIGHT THEN 0 ELSE y1
    IN Point(x2, y2)

\* The self-collision test skipping the last segment (the tail).
collidesNoTail(sn, next) == \E i \in 1..(Len(sn) - 1) : sn[i] = next

\* The self-collision loop stopping two segments before the end.
collidesShortLoop(sn, next) == \E i \in 1..(Len(sn) - 2) : sn[i] = next

\* update: the self-collision loop over every segment.
collides(sn, next) == \E i \in 1..Len(sn) : sn[i] = next

\* The move that pops the tail also when the food was eaten.
movedAlwaysPop(sn, next, ate) == SubSeq(<<next>> \o sn, 1, Len(sn))

\* update: push_front(next), and pop_back() unless the food was eaten.
moved(sn, next, ate) ==
    IF ate THEN <<next>> \o sn
    ELSE SubSeq(<<next>> \o sn, 1, Len(sn))

\* The constructor (which calls reset()), then run() up to its first pass.
SnakeInit ==
    /\ snake = ResetSnake
    /\ dir = "RIGHT"
    /\ food \in placeFood(ResetSnake)
    /\ score = 0
    /\ gameOver = FALSE
    /\ pc = "input"
    /\ key = "none"
    /\ nkeys = 0
    /\ mode = 0
    /\ board = EmptyBoard
    /\ turn = HUMAN
    /\ humanTurn = FALSE
    /\ state = 2
    /\ best = -2
    /\ startVal = -100

\* handleInput, one pass of its loop: a key is waiting and is read; an arrow
\* key's escape sequence is decoded in place, any other character goes
\* through handleCharInput.
ReadKey ==
    /\ pc = "input"
    /\ nkeys < MaxKeys
    /\ \E k \in Keys :
        /\ key' = k
        /\ dir' = CASE k = "ESC[A" -> tryChangeDir(dir, "UP")
                     [] k = "ESC[B" -> tryChangeDir(dir, "DOWN")
                     [] k = "ESC[C" -> tryChangeDir(dir, "RIGHT")
                     [] k = "ESC[D" -> tryChangeDir(dir, "LEFT")
                     [] k = "w" -> tryChangeDir(dir, "UP")
                     [] k = "s" -> tryChangeDir(dir, "DOWN")
                     [] k = "a" -> tryChangeDir(dir, "LEFT")
                     [] k = "d" -> tryChangeDir(dir, "RIGHT")
                     [] OTHER -> dir
        /\ gameOver' = IF k = "q" THEN TRUE ELSE gameOver
    /\ nkeys' = nkeys + 1
    /\ UNCHANGED <<snake, food, score, pc, tttVars>>

\* handleInput: no key is waiting, the call returns.
EndInput ==
    /\ pc = "input"
    /\ pc' = "timer"
    /\ key' = "none"
    /\ UNCHANGED <<snake, food, dir, score, gameOver, nkeys, tttVars>>

\* run: elapsed >= speed_ms.
TimerDue ==
    /\ pc = "timer"
    /\ pc' = "update"
    /\ UNCHANGED <<snake, food, dir, score, gameOver, key, nkeys, tttVars>>

\* TimerNotDue with a loop that does not test gameOver.
TimerNotDueNoTest ==
    /\ pc = "timer"
    /\ pc' = "input"
    /\ UNCHANGED <<snake, food, dir, score, gameOver, key, nkeys, tttVars>>

\* run: elapsed < speed_ms; sleep, then the loop's test.
TimerNotDue ==
    /\ pc = "timer"
    /\ pc' = IF gameOver THEN "done" ELSE "input"
    /\ UNCHANGED <<snake, food, dir, score, gameOver, key, nkeys, tttVars>>

\* Update rewarding every move, not only the eating one.
UpdateRewardsMove ==
    /\ pc = "update"
    /\ LET next == wrap(step(snake[1], dir))
       IN IF collides(snake, next)
          THEN /\ gameOver' = TRUE
               /\ UNCHANGED <<snake, food, score>>
          ELSE /\ snake' = moved(snake, next, next = food)
               /\ score' = score + 10
               /\ IF next = food
                  THEN food' \in placeFood(snake')
                  ELSE UNCHANGED food
               /\ UNCHANGED gameOver
    /\ pc' = IF gameOver' THEN "done" ELSE "input"
    /\ UNCHANGED <<dir, key, nkeys, tttVars>>

\* run: update(), draw(), sleep, then the loop's test.
Update ==
    /\ pc = "update"
    /\ LET next == wrap(step(snake[1], dir))
       IN IF collides(snake, next)
          THEN /\ gameOver' = TRUE
               /\ UNCHANGED <<snake, food, score>>
          ELSE /\ snake' = moved(snake, next, next = food)
               /\ IF next = food
                  THEN /\ score' = score + 10
                       /\ food' \in placeFood(snake')
                  ELSE UNCHANGED <<food, score>>
               /\ UNCHANGED gameOver
    /\ pc' = IF gameOver' THEN "done" ELSE "input"
    /\ UNCHANGED <<dir, key, nkeys, tttVars>>

SnakeNext == ReadKey \/ EndInput \/ TimerDue \/ TimerNotDue \/ Update

SpecSnake == SnakeInit /\ [][SnakeNext]_vars

(***************************************************************************)
(* Properties of the tic-tac-toe game                                      *)
(***************************************************************************)
Lines ==
    { {0, 1, 2}, {3, 4, 5}, {6, 7, 8},
      {0, 3, 6}, {1, 4, 7}, {2, 5, 8},
      {0, 4, 8}, {2, 4, 6} }

HasLine(b, p) == \E l \in Lines : \A c \in l : b[c] = p

Marks(b, p) == Cardinality({c \in Cells : b[c] = p})

ComputerToMove == mode = 2 /\ state = 2 /\ ~humanTurn

\* C1: in a human-vs-computer game from the empty board, whoever moves first
\* and whatever legal moves the human plays, checkWin never reports a human
\* win: the computer, playing findBestMove, never loses.
ComputerNeverLoses == mode = 2 => (state # -1 /\ checkWin(board) # -1)

\* A human-vs-computer game that the computer started has ended, no human win.
ComputerFirstGameOver ==
    /\ mode = 2 /\ state \in {0, 1}
    /\ Marks(board, COMPUTER) > Marks(board, HUMAN)

\* C2: when the human answers with a move of least minimax value and the
\* computer with findBestMove, no side ever wins: a game that has ended has
\* ended in a draw (checkWin = 0), whoever moved first.
OptimalPlayDraws == state = checkWin(board) /\ state \in {2, 0}

\* An optimal-against-optimal game started by the computer has ended in a draw.
OptimalDrawReached ==
    /\ state = 0 /\ checkWin(board) = 0
    /\ Marks(board, COMPUTER) = 5 /\ Marks(board, HUMAN) = 4

\* C3 as stated: from any board with an empty cell and no winner, once the
\* computer moves with findBestMove the human never completes a line.
AnyBoardNeverLoses == ~HasLine(board, HUMAN)

\* C3 amended: from any board with an empty cell and no winner on which the
\* first findBestMove call finds a best value >= 0 (the human has no forced
\* win there), the human never completes a line.
NotLostBoardNeverLoses == startVal >= 0 => (~HasLine(board, HUMAN) /\ state # -1)

\* The computer started on a board it had not lost, the human has answered,
\* and the computer is to move again.
NotLostBoardPlayed == ComputerToMove /\ best # -2 /\ startVal >= 0

\* C4: on every board it is called on, findBestMove returns an index i with
\* 0 <= i < 9 and board[i] empty.
BestMoveIsEmptyCell ==
    ComputerToMove =>
        \A r \in {findBestMove(board)} : r.move \in Cells /\ board[r.move] = EMPTY

\* findBestMove is about to be called on a board where every move loses.
BestMoveCalledOnLostBoard == ComputerToMove /\ best # -2 /\ startVal < 0 /\ startVal # -100

\* C5: findBestMove leaves the board as it was at the call (every trial mark,
\* its own and those of every minimax call, is undone), and a second call
\* on the board the first one left returns the same move.
SearchRestoresBoard ==
    ComputerToMove =>
        \A r \in {findBestMove(board)} :
            /\ r.board = board
            /\ findBestMove(r.board).move = r.move

\* findBestMove is called a second time in a game, on the vector the first
\* call worked on, with at least two cells still empty.
SearchCalledAgain == ComputerToMove /\ best # -2 /\ Cardinality(EmptyCells(board)) >= 2

\* C6: on every board of a game (alternating legal moves, stopped at the first
\* win or the full board), evaluate is +10 exactly when the computer holds a
\* complete line, -10 exactly when the human does, 0 otherwise; never both.
EvaluateMatchesLines ==
    /\ evaluate(board) \in {10, -10, 0}
    /\ evaluate(board) = 10 <=> HasLine(board, COMPUTER)
    /\ evaluate(board) = -10 <=> HasLine(board, HUMAN)
    /\ ~(HasLine(board, COMPUTER) /\ HasLine(board, HUMAN))
    /\ board = [c \in Cells |-> IF c \in {0, 1} THEN HUMAN
                                 ELSE IF c \in {3, 4} THEN COMPUTER ELSE EMPTY]
          => evaluate(board) = 0

\* A game has ended with the second diagonal (cells 2, 4, 6) complete.
SecondDiagonalWon ==
    /\ \A c \in {2, 4, 6} : board[c] = COMPUTER
    /\ evaluate(board) = 10
    /\ ~\E l \in Lines \ {{2, 4, 6}} : \A c \in l : board[c] = COMPUTER

(***************************************************************************)
(* Properties of the snake game                                            *)
(***************************************************************************)
\* The cell one step from p in direction d on the grid with its edges joined.
Neighbour(p, d) ==
    CASE d = "UP" -> Point(p.x, (p.y - 1) % HEIGHT)
      [] d = "DOWN" -> Point(p.x, (p.y + 1) % HEIGHT)
      [] d = "LEFT" -> Point((p.x - 1) % WIDTH, p.y)
      [] d = "RIGHT" -> Point((p.x + 1) % WIDTH, p.y)

Opposite(d) ==
    CASE d = "UP" -> "DOWN"
      [] d = "DOWN" -> "UP"
      [] d = "LEFT" -> "RIGHT"
      [] d = "RIGHT" -> "LEFT"

KeyDirection(k) ==
    CASE k \in {"w", "ESC[A"} -> "UP"
      [] k \in {"s", "ESC[B"} -> "DOWN"
      [] k \in {"a", "ESC[D"} -> "LEFT"
      [] k \in {"d", "ESC[C"} -> "RIGHT"

\* C7: a tick that does not collide puts the new head one cell from the old
\* head in the current direction, each axis taken modulo its dimension (Right
\* from column WIDTH-1 to column 0 of the same row, and so on); a tick sets
\* gameOver only when that cell is a segment of the snake, never for leaving
\* the board.
TickWrapsHead ==
    [][ pc = "update" =>
          /\ snake' # snake => snake'[1] = Neighbour(snake[1], dir)
          /\ (gameOver' /\ ~gameOver) => Neighbour(snake[1], dir) \in Segments(snake)
      ]_vars

\* The head has just gone from column WIDTH-1 to column 0 of the same row.
WrappedRight ==
    /\ pc = "input" /\ ~gameOver /\ dir = "RIGHT"
    /\ snake[1].x = 0 /\ snake[2].x = WIDTH - 1 /\ snake[1].y = snake[2].y

\* C8: a direction request that is the exact opposite of the current direction
\* changes nothing; any other request makes the direction the requested one
\* and changes nothing else (snake, food, score, gameOver).
ReverseRequestIgnored ==
    [][ (pc = "input" /\ nkeys' = nkeys + 1 /\ key' \in Keys \ {"q", "x"}) =>
          /\ dir' = IF KeyDirection(key') = Opposite(dir) THEN dir ELSE KeyDirection(key')
          /\ UNCHANGED <<snake, food, score, gameOver>>
      ]_vars

\* The key for Left has just been read while the snake was moving Right.
LeftRequestedMovingRight == pc = "input" /\ key = "a" /\ dir = "RIGHT"

\* C9: a tick whose new head lands on the food adds exactly 10 to the score and
\* one segment to the snake (new head in front, every old segment kept); a tick
\* that neither eats nor collides leaves the score and the length as they
\* were (new head in front, tail dropped).
EatingGrowsByOne ==
    [][ (pc = "update" /\ snake' # snake) =>
          IF snake'[1] = food
          THEN /\ score' = score + 10
               /\ Len(snake') = Len(snake) + 1
               /\ snake' = <<food>> \o snake
          ELSE /\ score' = score
               /\ Len(snake') = Len(snake)
               /\ snake' = <<snake'[1]>> \o SubSeq(snake, 1, Len(snake) - 1)
      ]_vars

\* The snake has eaten once: four segments, score 10.
AteOnce == score = 10 /\ Len(snake) = 4 /\ pc = "input"

\* C10: a tick whose wrapped next-head cell is a segment of the snake, the
\* tail included, sets gameOver and leaves snake, food, score and direction
\* as they were.
SelfCollisionEndsGame ==
    [][ (pc = "update" /\ Neighbour(snake[1], dir) \in Segments(snake)) =>
          /\ gameOver'
          /\ UNCHANGED <<snake, food, score, dir>>
      ]_vars

\* The game has ended on a tick that ran the head into the tail cell: three
\* turns, no other key.
RanIntoTail ==
    /\ pc = "done" /\ gameOver
    /\ nkeys = 3 /\ Len(snake) = 4 /\ score = 10
    /\ Neighbour(snake[1], dir) = snake[Len(snake)]

InGrid(p) == p.x \in 0..(WIDTH - 1) /\ p.y \in 0..(HEIGHT - 1)

\* C11: in every state reached from reset() by direction requests and ticks,
\* the food cell lies inside the grid and is no segment of the snake.
FoodOffSnake == pc # "off" => (InGrid(food) /\ food \notin Segments(snake))

\* The food has been eaten twice and placed again each time.
FoodPlacedAgain == score = 20 /\ InGrid(food) /\ food \notin Segments(snake)

\* The direction of the last move: the one that leads from the segment behind
\* the head to the head (RIGHT for the snake reset() builds).
HeadDirection == CHOOSE d \in Direction : Neighbour(snake[2], d) = snake[1]

\* C12: whatever keys are processed between two ticks, the direction a tick
\* applies is never the opposite of the direction the previous tick applied
\* (RIGHT before the first tick): the head is never steered straight back
\* into the segment behind it.
TickNeverReverses == pc = "update" => dir # Opposite(HeadDirection)

\* C13: once handleInput has processed 'q' and set gameOver, run() executes
\* no further update(): snake, food and score do not change again.
QuitStopsTicks ==
    [][ (gameOver /\ pc # "done") => UNCHANGED <<snake, food, score>> ]_vars

\* C14: once gameOver is true during run() it never becomes false again, and
\* the loop starts no further pass after the pass in which it became true: the
\* end of that pass leaves the loop, and nothing happens after it.
OverIsTerminal ==
    [][ /\ gameOver => gameOver'
        /\ (gameOver /\ pc = "timer") => pc' \in {"update", "done"}
        /\ (gameOver' /\ pc = "update") => pc' = "done"
        /\ pc # "done"
      ]_vars

\* The loop has been left after 'q' was processed: a snake of three segments
\* cannot run into itself.
QuitLeftLoop == pc = "done" /\ gameOver /\ Len(snake) = 3

\* C18: in every state reached during play the segments of the snake are
\* pairwise distinct and every one of them lies inside the grid.
SegmentsDistinctInGrid ==
    pc # "off" =>
        /\ \A i \in 1..Len(snake) : InGrid(snake[i])
        /\ \A i, j \in 1..Len(snake) : snake[i] = snake[j] => i = j

\* A snake of five segments has turned and goes on playing.
LongSnakeTurned ==
    /\ pc = "input" /\ ~gameOver /\ Len(snake) = 5
    /\ snake[1].x # snake[5].x /\ snake[1].y # snake[5].y

\* C20: score is ten times the number of segments gained since reset()
\* (length minus 3): never negative, a multiple of 10, and it changes only in
\* a step that lengthens the snake by exactly one segment.
ScoreCountsGrowth ==
    [][ /\ score = 10 * (Len(snake) - 3) /\ score' = 10 * (Len(snake') - 3)
        /\ score >= 0 /\ score % 10 = 0 /\ score' >= 0 /\ score' % 10 = 0
        /\ score' # score =>
              (pc = "update" /\ score' = score + 10 /\ Len(snake') = Len(snake) + 1)
        /\ Len(snake') # Len(snake) => score' # score
      ]_vars

\* Two foods eaten, the game still running.
ScoredTwice == score = 20 /\ Len(snake) = 5 /\ pc = "timer" /\ ~gameOver

(***************************************************************************)
(* Further properties of tic-tac-toe                                       *)
(***************************************************************************)
\* C15: on a board without an empty cell findBestMove returns -1 and leaves
\* the board as it was; humanVsComputer calls findBestMove only while the
\* game is not finished (no line, an empty cell left), so the cell the
\* computer's mark is written to is an empty cell of 0..8.
FullBoardNoMove ==
    [][ /\ ~isMovesLeft(board') =>
              findBestMove(board') = [move |-> -1, val |-> INT_MIN, board |-> board']
        /\ (mode = 2 /\ ~humanTurn) =>
              /\ checkWin(board) = 2 /\ isMovesLeft(board)
              /\ best' \in Cells /\ board[best'] = EMPTY
              /\ board' = [board EXCEPT ![best'] = COMPUTER]
      ]_vars

\* The computer, having moved first, has filled the last cell for a draw.
ComputerFilledLastCell ==
    /\ mode = 2 /\ state = 0 /\ ~isMovesLeft(board)
    /\ best \in Cells /\ board[best] = COMPUTER /\ Marks(board, COMPUTER) = 5

\* The empty cells that complete a line of the computer.
WinningCells(b) ==
    {c \in EmptyCells(b) : HasLine([b EXCEPT ![c] = COMPUTER], COMPUTER)}

\* C16: on a board without a winner on which some empty cell completes a
\* line of the computer, findBestMove returns such a cell (value 10), never a
\* cell that only wins later (value at most 8).
WinsAtOnce ==
    (ComputerToMove /\ WinningCells(board) # {}) =>
        \E r \in {findBestMove(board)} :
            r.move \in WinningCells(board) /\ r.val = 10

\* The computer has just completed a line, passing over a lower empty cell
\* that completes none.
WonPastLowerCell ==
    /\ mode = 2 /\ state = 1 /\ best \in Cells
    /\ \E prev \in {[board EXCEPT ![best] = EMPTY]} :
         /\ best \in WinningCells(prev)
         /\ \E c \in EmptyCells(prev) : c < best /\ c \notin WinningCells(prev)

\* C17: on a board with an empty cell the cell findBestMove returns to
\* humanVsComputer is the empty cell of lowest index among those of greatest
\* minimax value (the first seen wins a tie); on the empty board that is a
\* cell of 0..8.
LowestBestCell ==
    [][ (mode = 2 /\ ~humanTurn) =>
          \E vals \in {[i \in EmptyCells(board) |->
                          minimax([board EXCEPT ![i] = COMPUTER], 0, FALSE).val]} :
            /\ best' \in EmptyCells(board)
            /\ \A j \in EmptyCells(board) :
                  /\ vals[j] <= vals[best']
                  /\ j < best' => vals[j] < vals[best']
      ]_vars

\* The computer has opened the game on the empty board.
ComputerOpened ==
    /\ mode = 2 /\ best \in Cells
    /\ Marks(board, COMPUTER) = 1 /\ Marks(board, HUMAN) = 0

CountsAlternate(b) ==
    /\ Marks(b, HUMAN) - Marks(b, COMPUTER) \in {-1, 0, 1}
    /\ Marks(b, HUMAN) + Marks(b, COMPUTER) <= 9

\* C19: in both game loops the numbers of X and of O differ by at most one, a
\* move marks exactly one empty cell and leaves every marked cell as it is,
\* and a game ends after at most 9 moves: moves are made only while checkWin
\* reports a running game, which it does only while an empty cell is left; on
\* the full board it reports a win or the draw.
MarksAlternate ==
    [][ /\ CountsAlternate(board) /\ CountsAlternate(board')
        /\ state = 2 /\ checkWin(board) = 2 /\ state' = checkWin(board')
        /\ \E c \in Cells :
              /\ board[c] = EMPTY /\ board'[c] \in {HUMAN, COMPUTER}
              /\ \A d \in Cells \ {c} : board'[d] = board[d]
        /\ state' = 2 => isMovesLeft(board')
        /\ ~isMovesLeft(board') => state' \in {-1, 0, 1}
      ]_vars

\* A two-player game drawn on the ninth move.
TwoPlayerDraw ==
    /\ mode = 1 /\ state = 0
    /\ Marks(board, HUMAN) = 5 /\ Marks(board, COMPUTER) = 4

====
